---------------------------- MODULE Spec2Model ----------------------------
(***************************************************************************)
(* Model of the BLE wire protocol of the ELEC4740 sensor network           *)
(* (protocol/ble-protocol.hpp): packed packet records, flag helpers, the   *)
(* duty clamp, the version check, the codec and the builders.              *)
(*                                                                         *)
(* The header is a stateless library.  The state of the model is the       *)
(* storage its callers own during one exchange: the packet record being    *)
(* sent, the byte buffer handed to the BLE stack, and the record the       *)
(* receiving side decodes into.  Byte order is that of the target named in *)
(* the header (Particle Photon 2, little-endian), where std::memcpy of a   *)
(* packed record yields its fields in declared order, low byte first.      *)
(***************************************************************************)
EXTENDS Integers, Sequences, FiniteSets, TLC

VARIABLES
    op,        \* the last operation performed ("idle" between exchanges)
    ok,        \* bool returned by the last codec call (FALSE if none yet)
    kind,      \* packet type of the exchange: telemetry, event, control
    pkt,       \* the sender's packet record (const T &src of the encoders)
    buffer,    \* the caller's byte storage (dst of encoders, src of decoders)
    buf_null,  \* TRUE when the caller passes nullptr instead of the storage
    rx,        \* the receiver's packet record (T &dst of the decoders)
    args,      \* arguments of a pending or completed builder call
    field,     \* a raw 16-bit flags field held by a caller of the flag helpers
    flag       \* the named flag the caller applies to field

vars == <<op, ok, kind, pkt, buffer, buf_null, rx, args, field, flag>>

-----------------------------------------------------------------------------
(* Fixed-width integers *)

Uint8 == 0..255
Uint16 == 0..65535

\* a byte pointer: nullptr, or the storage it points to
nullptr == [null |-> TRUE, mem |-> <<>>]

PointerTo(mem) == [null |-> FALSE, mem |-> mem]

RECURSIVE Pow256(_)
Pow256(n) == IF n = 0 THEN 1 ELSE 256 * Pow256(n - 1)

\* a & b on non-negative integers
RECURSIVE BitAnd(_, _)
BitAnd(a, b) ==
    IF a = 0 \/ b = 0 THEN 0
    ELSE (a % 2) * (b % 2) + 2 * BitAnd(a \div 2, b \div 2)

\* a | b on non-negative integers
RECURSIVE BitOr(_, _)
BitOr(a, b) ==
    IF a = 0 THEN b
    ELSE IF b = 0 THEN a
    ELSE (IF (a % 2) + (b % 2) > 0 THEN 1 ELSE 0) + 2 * BitOr(a \div 2, b \div 2)

\* a ^ b on non-negative integers
RECURSIVE BitXor(_, _)
BitXor(a, b) ==
    IF a = 0 THEN b
    ELSE IF b = 0 THEN a
    ELSE ((a + b) % 2) + 2 * BitXor(a \div 2, b \div 2)

\* static_cast<std::uint16_t>(~x) for a uint16 x promoted to int
BitNot16(x) == 65535 - x

-----------------------------------------------------------------------------
(* Enumerations and constants *)

ble_protocol_version_t == [v1 |-> 1]

ble_node_id_t == [control |-> 0, sn1 |-> 1, sn2 |-> 2]

ble_telemetry_flag_t == [help_active |-> 1, override_active |-> 2, sensor_fault |-> 4]

ble_event_type_t ==
    [help_toggled |-> 1, motion_detected |-> 2, sound_detected |-> 3, sensor_fault |-> 4]

ble_control_flag_t == [override_enable |-> 1, clear_help_request |-> 2]

duty_per_mille_max == 1000

Range(f) == {f[x] : x \in DOMAIN f}

-----------------------------------------------------------------------------
(* Packed records and their object representation *)

Member(name, size, signed) == [name |-> name, size |-> size, signed |-> signed]

telemetry_packet_t ==
    << Member("protocol_version", 1, FALSE),
       Member("node_id", 1, FALSE),
       Member("flags", 2, FALSE),
       Member("primary_value", 2, TRUE),
       Member("secondary_value", 2, TRUE),
       Member("potentiometer_raw", 2, FALSE),
       Member("duty_commanded", 2, FALSE),
       Member("reserved", 2, FALSE) >>

event_packet_t ==
    << Member("protocol_version", 1, FALSE),
       Member("node_id", 1, FALSE),
       Member("event_type", 1, FALSE),
       Member("event_value", 2, TRUE),
       Member("timestamp_ms_mod", 2, FALSE) >>

control_packet_t ==
    << Member("protocol_version", 1, FALSE),
       Member("target_node_id", 1, FALSE),
       Member("command_flags", 2, FALSE),
       Member("duty_override", 2, FALSE),
       Member("reserved", 2, FALSE) >>

MemberNames(T) == {T[i].name : i \in 1..Len(T)}

\* #pragma pack(push, 1): every member follows the previous one directly
RECURSIVE offsetof(_, _)
offsetof(T, i) == IF i = 1 THEN 0 ELSE offsetof(T, i - 1) + T[i - 1].size

sizeof(T) == offsetof(T, Len(T)) + T[Len(T)].size

\* the member whose storage holds byte b (1-based) of an object of type T
MemberAt(T, b) ==
    CHOOSE i \in 1..Len(T) : offsetof(T, i) < b /\ b <= offsetof(T, i) + T[i].size

\* two's complement image of a member value in size bytes
ToUnsigned(v, size) == IF v < 0 THEN v + Pow256(size) ELSE v

FromUnsigned(u, size, signed) ==
    IF signed /\ u >= Pow256(size) \div 2 THEN u - Pow256(size) ELSE u

\* byte k (1-based) of the size-byte storage of value v on the target
StoreBigEndian(v, size, k) == (ToUnsigned(v, size) \div Pow256(size - k)) % 256

StoreByte(v, size, k) == (ToUnsigned(v, size) \div Pow256(k - 1)) % 256

\* the value a member holds when its storage is the bytes bs[off+1 .. off+size]
RECURSIVE LoadUnsigned(_, _, _)
LoadUnsigned(bs, off, size) ==
    IF size = 0 THEN 0
    ELSE bs[off + 1] + 256 * LoadUnsigned(bs, off + 1, size - 1)

\* the bytes of an object of packed type T
ObjectBytes(T, obj) ==
    [b \in 1..sizeof(T) |->
        LET i == MemberAt(T, b)
        IN  StoreByte(obj[T[i].name], T[i].size, b - offsetof(T, i))]

\* the object of packed type T whose storage holds the bytes bs
ObjectOf(T, bs) ==
    [n \in MemberNames(T) |->
        LET i == CHOOSE j \in 1..Len(T) : T[j].name = n
        IN  FromUnsigned(LoadUnsigned(bs, offsetof(T, i), T[i].size),
                         T[i].size, T[i].signed)]

\* T pkt{}: value-initialised record
ZeroObject(T) == [n \in MemberNames(T) |-> 0]

\* std::memcpy(dst, src, n) on byte storage: the first n bytes of dst are
\* replaced, the rest of dst is untouched
memcpy(dst, src, n) ==
    [i \in 1..Len(dst) |-> IF i <= n THEN src[i] ELSE dst[i]]

-----------------------------------------------------------------------------
(* Flag helpers *)

ble_telemetry_flag_mask(f) == ble_telemetry_flag_t[f]

ble_control_flag_mask(f) == ble_control_flag_t[f]

ble_telemetry_flag_is_set(flags, f) == BitAnd(flags, ble_telemetry_flag_mask(f)) # 0

\* a clear branch that toggles the bit instead of masking it out
ble_telemetry_flag_update_toggle(flags, f, set) ==
    IF set
    THEN BitOr(flags, ble_telemetry_flag_mask(f))
    ELSE BitXor(flags, ble_telemetry_flag_mask(f))

ble_telemetry_flag_update(flags, f, set) ==
    IF set
    THEN BitOr(flags, ble_telemetry_flag_mask(f)) % 65536
    ELSE BitAnd(flags, BitNot16(ble_telemetry_flag_mask(f))) % 65536

ble_control_flag_is_set(flags, f) == BitAnd(flags, ble_control_flag_mask(f)) # 0

\* flag_update of the specification applied to a control flags field; the
\* header declares no update helper for control flags
control_flag_update(flags, f, set) ==
    IF set
    THEN BitOr(flags, ble_control_flag_mask(f)) % 65536
    ELSE BitAnd(flags, BitNot16(ble_control_flag_mask(f))) % 65536

-----------------------------------------------------------------------------
(* Duty clamp and version check *)

\* a clamp that returns its argument
ble_clamp_duty_unclamped(duty_per_mille) == duty_per_mille

ble_clamp_duty_per_mille(duty_per_mille) ==
    IF duty_per_mille > duty_per_mille_max
    THEN duty_per_mille_max
    ELSE duty_per_mille

\* a check that only tests that a first byte exists
ble_validate_any_version(expected, buf, buffer_size) ==
    IF buf = nullptr THEN FALSE
    ELSE IF buffer_size < 1 THEN FALSE
    ELSE TRUE

\* a check that compares against v1 whatever version is expected
ble_validate_fixed_version(expected, buf, buffer_size) ==
    IF buf = nullptr THEN FALSE
    ELSE IF buffer_size < 1 THEN FALSE
    ELSE IF buf.mem[1] # ble_protocol_version_t.v1 THEN FALSE
    ELSE TRUE

ble_validate_protocol_version(expected, buf, buffer_size) ==
    IF buf = nullptr THEN FALSE
    ELSE IF buffer_size < 1 THEN FALSE
    ELSE IF buf.mem[1] # expected THEN FALSE
    ELSE TRUE

-----------------------------------------------------------------------------
(* Codec.  An encoder returns its bool (ok) and the contents of the        *)
(* storage dst points to after the call (mem); a decoder returns its bool  *)
(* and the destination record after the call (dst).                        *)

\* an encoder that copies sizeof(event_packet_t) bytes
ble_pack_telemetry_short_copy(dst, dst_size, src) ==
    IF dst = nullptr THEN [ok |-> FALSE, mem |-> dst.mem]
    ELSE IF dst_size < sizeof(telemetry_packet_t) THEN [ok |-> FALSE, mem |-> dst.mem]
    ELSE IF src.protocol_version # ble_protocol_version_t.v1
         THEN [ok |-> FALSE, mem |-> dst.mem]
    ELSE [ok |-> TRUE,
          mem |-> memcpy(dst.mem, ObjectBytes(telemetry_packet_t, src),
                         sizeof(event_packet_t))]

\* an encoder that copies before it checks the version
ble_pack_telemetry_copy_first(dst, dst_size, src) ==
    IF dst = nullptr THEN [ok |-> FALSE, mem |-> dst.mem]
    ELSE IF dst_size < sizeof(telemetry_packet_t) THEN [ok |-> FALSE, mem |-> dst.mem]
    ELSE [ok |-> src.protocol_version = ble_protocol_version_t.v1,
          mem |-> memcpy(dst.mem, ObjectBytes(telemetry_packet_t, src),
                         sizeof(telemetry_packet_t))]

ble_pack_telemetry(dst, dst_size, src) ==
    IF dst = nullptr THEN [ok |-> FALSE, mem |-> dst.mem]
    ELSE IF dst_size < sizeof(telemetry_packet_t) THEN [ok |-> FALSE, mem |-> dst.mem]
    ELSE IF src.protocol_version # ble_protocol_version_t.v1
         THEN [ok |-> FALSE, mem |-> dst.mem]
    ELSE [ok |-> TRUE,
          mem |-> memcpy(dst.mem, ObjectBytes(telemetry_packet_t, src),
                         sizeof(telemetry_packet_t))]

\* an encoder without the version check
ble_pack_event_any_version(dst, dst_size, src) ==
    IF dst = nullptr THEN [ok |-> FALSE, mem |-> dst.mem]
    ELSE IF dst_size < sizeof(event_packet_t) THEN [ok |-> FALSE, mem |-> dst.mem]
    ELSE [ok |-> TRUE,
          mem |-> memcpy(dst.mem, ObjectBytes(event_packet_t, src),
                         sizeof(event_packet_t))]

ble_pack_event(dst, dst_size, src) ==
    IF dst = nullptr THEN [ok |-> FALSE, mem |-> dst.mem]
    ELSE IF dst_size < sizeof(event_packet_t) THEN [ok |-> FALSE, mem |-> dst.mem]
    ELSE IF src.protocol_version # ble_protocol_version_t.v1
         THEN [ok |-> FALSE, mem |-> dst.mem]
    ELSE [ok |-> TRUE,
          mem |-> memcpy(dst.mem, ObjectBytes(event_packet_t, src),
                         sizeof(event_packet_t))]

\* a decoder whose length check uses sizeof(event_packet_t); bytes it reads
\* past the end of src are taken as 0
ble_unpack_control_short_gate(dst, src, src_size) ==
    IF ~ble_validate_protocol_version(ble_protocol_version_t.v1, src, src_size)
    THEN [ok |-> FALSE, dst |-> dst]
    ELSE IF src_size < sizeof(event_packet_t) THEN [ok |-> FALSE, dst |-> dst]
    ELSE [ok |-> TRUE,
          dst |-> ObjectOf(control_packet_t,
                           [i \in 1..sizeof(control_packet_t) |->
                               IF i <= Len(src.mem) THEN src.mem[i] ELSE 0])]

\* a decoder that copies the bytes that follow the version byte
ble_unpack_control_shifted(dst, src, src_size) ==
    IF ~ble_validate_protocol_version(ble_protocol_version_t.v1, src, src_size)
    THEN [ok |-> FALSE, dst |-> dst]
    ELSE IF src_size < sizeof(control_packet_t) THEN [ok |-> FALSE, dst |-> dst]
    ELSE [ok |-> TRUE,
          dst |-> ObjectOf(control_packet_t,
                           [i \in 1..sizeof(control_packet_t) |->
                               IF i = 1 THEN src.mem[1]
                               ELSE IF i < Len(src.mem) THEN src.mem[i + 1] ELSE 0])]

\* a decoder that clamps the duty it has read
ble_unpack_control_clamping(dst, src, src_size) ==
    IF ~ble_validate_protocol_version(ble_protocol_version_t.v1, src, src_size)
    THEN [ok |-> FALSE, dst |-> dst]
    ELSE IF src_size < sizeof(control_packet_t) THEN [ok |-> FALSE, dst |-> dst]
    ELSE LET read == ObjectOf(control_packet_t,
                              memcpy(ObjectBytes(control_packet_t, dst), src.mem,
                                     sizeof(control_packet_t)))
         IN  [ok |-> TRUE,
              dst |-> [read EXCEPT !.duty_override =
                                     ble_clamp_duty_per_mille(read.duty_override)]]

ble_unpack_control(dst, src, src_size) ==
    IF ~ble_validate_protocol_version(ble_protocol_version_t.v1, src, src_size)
    THEN [ok |-> FALSE, dst |-> dst]
    ELSE IF src_size < sizeof(control_packet_t) THEN [ok |-> FALSE, dst |-> dst]
    ELSE [ok |-> TRUE,
          dst |-> ObjectOf(control_packet_t,
                           memcpy(ObjectBytes(control_packet_t, dst), src.mem,
                                  sizeof(control_packet_t)))]

(* The header declares no control encoder and no telemetry or event        *)
(* decoder.  These three follow section 4.4 of the specification: encode   *)
(* fails on a version other than the supported one and otherwise yields    *)
(* the fixed byte count, members in declared order, little-endian; decode  *)
(* fails on input shorter than the fixed size or with another first byte   *)
(* and otherwise yields the populated record, reading no further than the  *)
(* fixed size.                                                             *)

encode_control(dst, dst_size, src) ==
    IF dst = nullptr THEN [ok |-> FALSE, mem |-> dst.mem]
    ELSE IF dst_size < 8 THEN [ok |-> FALSE, mem |-> dst.mem]
    ELSE IF src.protocol_version # 1 THEN [ok |-> FALSE, mem |-> dst.mem]
    ELSE [ok |-> TRUE,
          mem |-> [i \in 1..Len(dst.mem) |->
                     CASE i = 1 -> src.protocol_version
                       [] i = 2 -> src.target_node_id
                       [] i = 3 -> src.command_flags % 256
                       [] i = 4 -> src.command_flags \div 256
                       [] i = 5 -> src.duty_override % 256
                       [] i = 6 -> src.duty_override \div 256
                       [] i = 7 -> src.reserved % 256
                       [] i = 8 -> src.reserved \div 256
                       [] OTHER -> dst.mem[i]]]

Signed16(u) == IF u >= 32768 THEN u - 65536 ELSE u

decode_telemetry(dst, src, src_size) ==
    IF src = nullptr THEN [ok |-> FALSE, dst |-> dst]
    ELSE IF src_size < 14 THEN [ok |-> FALSE, dst |-> dst]
    ELSE IF src.mem[1] # 1 THEN [ok |-> FALSE, dst |-> dst]
    ELSE [ok |-> TRUE,
          dst |-> [protocol_version |-> src.mem[1],
                   node_id |-> src.mem[2],
                   flags |-> src.mem[3] + 256 * src.mem[4],
                   primary_value |-> Signed16(src.mem[5] + 256 * src.mem[6]),
                   secondary_value |-> Signed16(src.mem[7] + 256 * src.mem[8]),
                   potentiometer_raw |-> src.mem[9] + 256 * src.mem[10],
                   duty_commanded |-> src.mem[11] + 256 * src.mem[12],
                   reserved |-> src.mem[13] + 256 * src.mem[14]]]

decode_event(dst, src, src_size) ==
    IF src = nullptr THEN [ok |-> FALSE, dst |-> dst]
    ELSE IF src_size < 7 THEN [ok |-> FALSE, dst |-> dst]
    ELSE IF src.mem[1] # 1 THEN [ok |-> FALSE, dst |-> dst]
    ELSE [ok |-> TRUE,
          dst |-> [protocol_version |-> src.mem[1],
                   node_id |-> src.mem[2],
                   event_type |-> src.mem[3],
                   event_value |-> Signed16(src.mem[4] + 256 * src.mem[5]),
                   timestamp_ms_mod |-> src.mem[6] + 256 * src.mem[7]]]

-----------------------------------------------------------------------------
(* Builders *)

\* a builder that leaves protocol_version as value-initialised
ble_make_telemetry_unversioned(node_id) ==
    [ZeroObject(telemetry_packet_t) EXCEPT !.node_id = node_id]

ble_make_telemetry(node_id) ==
    [ZeroObject(telemetry_packet_t) EXCEPT
        !.protocol_version = ble_protocol_version_t.v1,
        !.node_id = node_id,
        !.flags = 0,
        !.primary_value = 0,
        !.secondary_value = 0,
        !.potentiometer_raw = 0,
        !.duty_commanded = 0,
        !.reserved = 0]

ble_make_event(node_id, type, value, timestamp_ms_mod) ==
    [ZeroObject(event_packet_t) EXCEPT
        !.protocol_version = ble_protocol_version_t.v1,
        !.node_id = node_id,
        !.event_type = type,
        !.event_value = value,
        !.timestamp_ms_mod = timestamp_ms_mod]

ble_make_control(target, flags, duty_override) ==
    [ZeroObject(control_packet_t) EXCEPT
        !.protocol_version = ble_protocol_version_t.v1,
        !.target_node_id = target,
        !.command_flags = flags,
        !.duty_override = ble_clamp_duty_per_mille(duty_override),
        !.reserved = 0]

-----------------------------------------------------------------------------
(* Test vectors *)

BLE_TEST_TELEM_1 == <<1, 2, 1, 0, 202, 8, 1, 0, 0, 8, 244, 1, 0, 0>>

BLE_TEST_EVENT_1 == <<1, 1, 2, 1, 0, 52, 18>>

BLE_TEST_CTRL_1 == <<1, 2, 1, 0, 238, 2, 0, 0>>

-----------------------------------------------------------------------------
(* Inputs of the model *)

\* largest byte storage a caller provides or the BLE stack delivers
MaxBufLen == 16

Kinds == {"telemetry", "event", "control"}

PacketType(k) ==
    CASE k = "telemetry" -> telemetry_packet_t
      [] k = "event" -> event_packet_t
      [] k = "control" -> control_packet_t

\* measured values a sensor node fills in after ble_make_telemetry; the
\* first is the sample of test vector TELEM_1
TelemetrySamples ==
    { [flags |-> 1, primary_value |-> 2250, secondary_value |-> 1,
       potentiometer_raw |-> 2048, duty_commanded |-> 500],
      [flags |-> 7, primary_value |-> -1, secondary_value |-> 0,
       potentiometer_raw |-> 65535, duty_commanded |-> 1000],
      [flags |-> 32772, primary_value |-> 1027, secondary_value |-> -32768,
       potentiometer_raw |-> 1541, duty_commanded |-> 2055] }

VersionSamples == {0, 1, 2}

ReservedSamples == {0, 1, 48879}

EventValueSamples == {1, -2, -32768}

TimestampSamples == {4660, 65535}

CommandFlagSamples == {0, 1, 3, 65535}

DutySamples == {0, 750, 1000, 1001, 65535}

\* contents of storage the caller has not written yet
StaleByte(i) == (37 * i + 11) % 256

StaleBuffer(len) == [i \in 1..len |-> StaleByte(i)]

\* what a destination record may hold before a decoder is called
StaleRecords(k) ==
    { ZeroObject(PacketType(k)),
      ObjectOf(PacketType(k), StaleBuffer(sizeof(PacketType(k)))) }

\* bytes a peer may write to a characteristic: a given first byte followed
\* by the body of CTRL_1 and trailing bytes, or by arbitrary bytes
Payload(first, len, pattern) ==
    [i \in 1..len |->
        IF i = 1 THEN first
        ELSE IF pattern = 1
             THEN (IF i <= Len(BLE_TEST_CTRL_1) THEN BLE_TEST_CTRL_1[i]
                   ELSE (90 + i) % 256)
             ELSE (251 * i + 3) % 256]

ReceivedPayloads ==
    {BLE_TEST_TELEM_1, BLE_TEST_EVENT_1, BLE_TEST_CTRL_1}
    \cup {Payload(first, len, pattern) :
             first \in {0, 1, 2, 255}, len \in 0..MaxBufLen, pattern \in {1, 2}}

NoPacket == [none |-> 0]

NoArgs == [none |-> 0]

NoFlag == [type |-> "none", name |-> "none"]

\* the pointer the caller passes for its storage
BufferPtr == IF buf_null THEN nullptr ELSE PointerTo(buffer)

-----------------------------------------------------------------------------
(* One exchange: build, assign, provide storage, encode, decode *)

Init ==
    /\ op = "idle"
    /\ ok = FALSE
    /\ kind = "none"
    /\ pkt = NoPacket
    /\ buffer = <<>>
    /\ buf_null = FALSE
    /\ rx = NoPacket
    /\ args = NoArgs
    /\ field = 0
    /\ flag = NoFlag

Built == op \in {"make_telemetry", "make_event", "make_control", "assign"}

MakeTelemetry ==
    /\ op = "idle"
    /\ \E node_id \in Range(ble_node_id_t) :
          pkt' = ble_make_telemetry(node_id)
    /\ kind' = "telemetry"
    /\ op' = "make_telemetry"
    /\ UNCHANGED <<ok, buffer, buf_null, rx, args, field, flag>>

MakeEvent ==
    /\ op = "idle"
    /\ \E node_id \in Range(ble_node_id_t), type \in Range(ble_event_type_t),
          value \in EventValueSamples, timestamp_ms_mod \in TimestampSamples :
          pkt' = ble_make_event(node_id, type, value, timestamp_ms_mod)
    /\ kind' = "event"
    /\ op' = "make_event"
    /\ UNCHANGED <<ok, buffer, buf_null, rx, args, field, flag>>

MakeControl ==
    /\ op = "idle"
    /\ \E target \in Range(ble_node_id_t), flags \in CommandFlagSamples,
          duty_override \in DutySamples :
          pkt' = ble_make_control(target, flags, duty_override)
    /\ kind' = "control"
    /\ op' = "make_control"
    /\ UNCHANGED <<ok, buffer, buf_null, rx, args, field, flag>>

\* the sensor node fills in the measured values
FillTelemetry ==
    /\ Built
    /\ kind = "telemetry"
    /\ \E s \in TelemetrySamples :
          pkt' = [pkt EXCEPT !.flags = s.flags,
                             !.primary_value = s.primary_value,
                             !.secondary_value = s.secondary_value,
                             !.potentiometer_raw = s.potentiometer_raw,
                             !.duty_commanded = s.duty_commanded]
    /\ op' = "assign"
    /\ UNCHANGED <<ok, kind, buffer, buf_null, rx, args, field, flag>>

\* the caller assigns the public member protocol_version
SetVersion ==
    /\ Built
    /\ \E v \in VersionSamples : pkt' = [pkt EXCEPT !.protocol_version = v]
    /\ op' = "assign"
    /\ UNCHANGED <<ok, kind, buffer, buf_null, rx, args, field, flag>>

\* the caller assigns the public member reserved
SetReserved ==
    /\ Built
    /\ kind \in {"telemetry", "control"}
    /\ \E r \in ReservedSamples : pkt' = [pkt EXCEPT !.reserved = r]
    /\ op' = "assign"
    /\ UNCHANGED <<ok, kind, buffer, buf_null, rx, args, field, flag>>

\* the caller provides the destination storage (or passes nullptr) and the
\* peer provides the record it will decode into
Alloc ==
    /\ Built
    /\ \E len \in 0..MaxBufLen : buffer' = StaleBuffer(len)
    /\ buf_null' \in BOOLEAN
    /\ rx' \in StaleRecords(kind)
    /\ op' = "alloc"
    /\ UNCHANGED <<ok, kind, pkt, args, field, flag>>

\* the BLE stack delivers bytes written by a peer
Receive ==
    /\ op = "idle"
    /\ kind' \in Kinds
    /\ buffer' \in ReceivedPayloads
    /\ buf_null' \in BOOLEAN
    /\ rx' \in StaleRecords(kind')
    /\ op' = "receive"
    /\ UNCHANGED <<ok, pkt, args, field, flag>>

Encode(fn_name, result) ==
    /\ ok' = result.ok
    /\ buffer' = IF buf_null THEN buffer ELSE result.mem
    /\ op' = fn_name
    /\ UNCHANGED <<kind, pkt, buf_null, rx, args, field, flag>>

Decode(fn_name, result) ==
    /\ ok' = result.ok
    /\ rx' = result.dst
    /\ op' = fn_name
    /\ UNCHANGED <<kind, pkt, buffer, buf_null, args, field, flag>>

PackTelemetry ==
    /\ op = "alloc"
    /\ kind = "telemetry"
    /\ Encode("ble_pack_telemetry", ble_pack_telemetry(BufferPtr, Len(buffer), pkt))

PackEvent ==
    /\ op = "alloc"
    /\ kind = "event"
    /\ Encode("ble_pack_event", ble_pack_event(BufferPtr, Len(buffer), pkt))

EncodeControl ==
    /\ op = "alloc"
    /\ kind = "control"
    /\ Encode("encode_control", encode_control(BufferPtr, Len(buffer), pkt))

DecodeTelemetry ==
    /\ op \in {"ble_pack_telemetry", "receive"}
    /\ kind = "telemetry"
    /\ Decode("decode_telemetry", decode_telemetry(rx, BufferPtr, Len(buffer)))

DecodeEvent ==
    /\ op \in {"ble_pack_event", "receive"}
    /\ kind = "event"
    /\ Decode("decode_event", decode_event(rx, BufferPtr, Len(buffer)))

UnpackControl ==
    /\ op \in {"encode_control", "receive"}
    /\ kind = "control"
    /\ Decode("ble_unpack_control", ble_unpack_control(rx, BufferPtr, Len(buffer)))

\* the exchange is over; its storage goes out of scope
End ==
    /\ op \in {"decode_telemetry", "decode_event", "ble_unpack_control"}
    /\ op' = "idle"
    /\ ok' = FALSE
    /\ kind' = "none"
    /\ pkt' = NoPacket
    /\ buffer' = <<>>
    /\ buf_null' = FALSE
    /\ rx' = NoPacket
    /\ UNCHANGED <<args, field, flag>>

Next ==
    \/ MakeTelemetry
    \/ MakeEvent
    \/ MakeControl
    \/ FillTelemetry
    \/ SetVersion
    \/ SetReserved
    \/ Alloc
    \/ Receive
    \/ PackTelemetry
    \/ PackEvent
    \/ EncodeControl
    \/ DecodeTelemetry
    \/ DecodeEvent
    \/ UnpackControl
    \/ End

Spec == Init /\ [][Next]_vars

-----------------------------------------------------------------------------
(* The control builder over the whole range of its duty argument *)

ClampInit ==
    /\ op = "call"
    /\ args \in [target : Range(ble_node_id_t),
                 flags : {0, 65535},
                 duty_override : Uint16]
    /\ ok = FALSE
    /\ kind = "control"
    /\ pkt = NoPacket
    /\ buffer = <<>>
    /\ buf_null = FALSE
    /\ rx = NoPacket
    /\ field = 0
    /\ flag = NoFlag

CallMakeControl ==
    /\ op = "call"
    /\ pkt' = ble_make_control(args.target, args.flags, args.duty_override)
    /\ op' = "ble_make_control"
    /\ UNCHANGED <<ok, kind, buffer, buf_null, rx, args, field, flag>>

ClampSpec == ClampInit /\ [][CallMakeControl]_vars

-----------------------------------------------------------------------------
(* The flag helpers over every 16-bit field value and every named flag *)

NamedFlags ==
    {[type |-> "telemetry", name |-> n] : n \in DOMAIN ble_telemetry_flag_t}
    \cup {[type |-> "control", name |-> n] : n \in DOMAIN ble_control_flag_t}

flag_update(flags, f, set) ==
    IF f.type = "telemetry"
    THEN ble_telemetry_flag_update(flags, f.name, set)
    ELSE control_flag_update(flags, f.name, set)

flag_is_set(flags, f) ==
    IF f.type = "telemetry"
    THEN ble_telemetry_flag_is_set(flags, f.name)
    ELSE ble_control_flag_is_set(flags, f.name)

FlagInit ==
    /\ op = "flags"
    /\ field \in Uint16
    /\ flag \in NamedFlags
    /\ ok = FALSE
    /\ kind = "none"
    /\ pkt = NoPacket
    /\ buffer = <<>>
    /\ buf_null = FALSE
    /\ rx = NoPacket
    /\ args = NoArgs

FlagUpdate ==
    /\ op \in {"flags", "flag_set", "flag_clear"}
    /\ \E set \in BOOLEAN :
          /\ field' = flag_update(field, flag, set)
          /\ op' = IF set THEN "flag_set" ELSE "flag_clear"
    /\ UNCHANGED <<ok, kind, pkt, buffer, buf_null, rx, args, flag>>

FlagSpec == FlagInit /\ [][FlagUpdate]_vars

-----------------------------------------------------------------------------
(* The version check called on its own, before any decode *)

ValidateInit ==
    /\ op = "call"
    /\ args \in [expected : Uint8]
    /\ buffer \in ReceivedPayloads
    /\ buf_null \in BOOLEAN
    /\ ok = FALSE
    /\ kind = "none"
    /\ pkt = NoPacket
    /\ rx = NoPacket
    /\ field = 0
    /\ flag = NoFlag

CallValidate ==
    /\ op = "call"
    /\ ok' = ble_validate_protocol_version(args.expected, BufferPtr, Len(buffer))
    /\ op' = "ble_validate_protocol_version"
    /\ UNCHANGED <<kind, pkt, buffer, buf_null, rx, args, field, flag>>

ValidateSpec == ValidateInit /\ [][CallValidate]_vars

-----------------------------------------------------------------------------
(* The builders called with recorded arguments, their result handed to the *)
(* matching encoder as it is                                               *)

NodeIdArgs == Range(ble_node_id_t) \cup {255}

BuilderArgs ==
    [fn : {"ble_make_telemetry"}, node_id : Uint8]
    \cup [fn : {"ble_make_event"}, node_id : NodeIdArgs,
          type : Range(ble_event_type_t) \cup {0, 255},
          value : {-32768, -1, 0, 1, 32767},
          timestamp_ms_mod : {0, 4660, 65535}]
    \cup [fn : {"ble_make_control"}, target : NodeIdArgs,
          flags : CommandFlagSamples, duty_override : DutySamples]

BuilderInit ==
    /\ op = "call"
    /\ args \in BuilderArgs
    /\ ok = FALSE
    /\ kind = "none"
    /\ pkt = NoPacket
    /\ buffer = <<>>
    /\ buf_null = FALSE
    /\ rx = NoPacket
    /\ field = 0
    /\ flag = NoFlag

BuildTelemetry ==
    /\ op = "call"
    /\ args.fn = "ble_make_telemetry"
    /\ pkt' = ble_make_telemetry(args.node_id)
    /\ kind' = "telemetry"
    /\ op' = "make_telemetry"
    /\ UNCHANGED <<ok, buffer, buf_null, rx, args, field, flag>>

BuildEvent ==
    /\ op = "call"
    /\ args.fn = "ble_make_event"
    /\ pkt' = ble_make_event(args.node_id, args.type, args.value,
                             args.timestamp_ms_mod)
    /\ kind' = "event"
    /\ op' = "make_event"
    /\ UNCHANGED <<ok, buffer, buf_null, rx, args, field, flag>>

BuildControl ==
    /\ op = "call"
    /\ args.fn = "ble_make_control"
    /\ pkt' = ble_make_control(args.target, args.flags, args.duty_override)
    /\ kind' = "control"
    /\ op' = "make_control"
    /\ UNCHANGED <<ok, buffer, buf_null, rx, args, field, flag>>

BuilderNext ==
    \/ BuildTelemetry
    \/ BuildEvent
    \/ BuildControl
    \/ Alloc
    \/ PackTelemetry
    \/ PackEvent
    \/ EncodeControl

BuilderSpec == BuilderInit /\ [][BuilderNext]_vars

-----------------------------------------------------------------------------
(* Wire images written out member by member, for the properties below *)

LowByte(v) == v % 256

HighByte(v) == (v \div 256) % 256

TelemetryWire(p) ==
    << p.protocol_version, p.node_id,
       LowByte(p.flags), HighByte(p.flags),
       LowByte(p.primary_value), HighByte(p.primary_value),
       LowByte(p.secondary_value), HighByte(p.secondary_value),
       LowByte(p.potentiometer_raw), HighByte(p.potentiometer_raw),
       LowByte(p.duty_commanded), HighByte(p.duty_commanded),
       LowByte(p.reserved), HighByte(p.reserved) >>

EventWire(p) ==
    << p.protocol_version, p.node_id, p.event_type,
       LowByte(p.event_value), HighByte(p.event_value),
       LowByte(p.timestamp_ms_mod), HighByte(p.timestamp_ms_mod) >>

Prefix(bs, n) == [i \in 1..n |-> bs[i]]

TelemetryRecord1 ==
    [protocol_version |-> 1, node_id |-> 2, flags |-> 1, primary_value |-> 2250,
     secondary_value |-> 1, potentiometer_raw |-> 2048, duty_commanded |-> 500,
     reserved |-> 0]

EventRecord1 ==
    [protocol_version |-> 1, node_id |-> 1, event_type |-> 2, event_value |-> 1,
     timestamp_ms_mod |-> 4660]

ControlRecord1 ==
    [protocol_version |-> 1, target_node_id |-> 2, command_flags |-> 1,
     duty_override |-> 750, reserved |-> 0]

\* the exchange started with a builder, so the bytes decoded are the bytes
\* the encoder was given the chance to write
Loopback == pkt # NoPacket

-----------------------------------------------------------------------------
(* Properties *)

\* C1: round trip.  A record of any of the three types with protocol
\* version 1, encoded into a present buffer of at least the fixed size and
\* then decoded from those bytes, is accepted by both calls and comes back
\* equal in every member.
C1_RoundTrip ==
    /\ (op = "decode_telemetry" /\ Loopback /\ pkt.protocol_version = 1
            /\ ~buf_null /\ Len(buffer) >= 14)
        => (ok /\ rx = pkt)
    /\ (op = "decode_event" /\ Loopback /\ pkt.protocol_version = 1
            /\ ~buf_null /\ Len(buffer) >= 7)
        => (ok /\ rx = pkt)
    /\ (op = "ble_unpack_control" /\ Loopback /\ pkt.protocol_version = 1
            /\ ~buf_null /\ Len(buffer) >= 8)
        => (ok /\ rx = pkt)

C1_Witness ==
    /\ op = "decode_telemetry"
    /\ Loopback
    /\ ok
    /\ rx = pkt
    /\ pkt.secondary_value = -32768
    /\ pkt.reserved = 48879
    /\ Len(buffer) = 14

\* C2: version gate.  ble_unpack_control fails on every buffer whose first
\* byte is not 1, whatever its length and its other bytes.
C2_VersionGate ==
    (op = "ble_unpack_control" /\ Len(buffer) >= 1 /\ buffer[1] # 1) => ~ok

C2_Witness ==
    /\ op = "ble_unpack_control"
    /\ ~buf_null
    /\ Len(buffer) = 8
    /\ buffer[1] = 2
    /\ \A i \in 2..8 : buffer[i] = BLE_TEST_CTRL_1[i]
    /\ ~ok

\* C3: length gate.  ble_unpack_control fails on every buffer shorter than 8
\* bytes; on a present buffer longer than 8 bytes that starts with version 1
\* it succeeds and yields the record decoded from the first 8 bytes alone.
C3_LengthGate ==
    op = "ble_unpack_control" =>
        /\ Len(buffer) < 8 => ~ok
        /\ (~buf_null /\ Len(buffer) > 8 /\ buffer[1] = 1) =>
              LET alone == ble_unpack_control(ZeroObject(control_packet_t),
                                              PointerTo(Prefix(buffer, 8)), 8)
              IN  ok /\ alone.ok /\ rx = alone.dst

C3_Witness ==
    /\ op = "ble_unpack_control"
    /\ ~buf_null
    /\ Len(buffer) > 8
    /\ buffer[1] = 1
    /\ buffer[9] # 0
    /\ ok
    /\ rx = ControlRecord1

\* C4: encode outcomes.  ble_pack_telemetry and ble_pack_event succeed if
\* and only if the destination is present, its size is at least 14 / 7, and
\* the packet's protocol_version is 1.
C4_EncodeOutcome ==
    /\ op = "ble_pack_telemetry" =>
          (ok <=> (~buf_null /\ Len(buffer) >= 14 /\ pkt.protocol_version = 1))
    /\ op = "ble_pack_event" =>
          (ok <=> (~buf_null /\ Len(buffer) >= 7 /\ pkt.protocol_version = 1))

C4_Witness ==
    /\ op = "ble_pack_event"
    /\ ~buf_null
    /\ Len(buffer) >= 7
    /\ pkt.protocol_version = 2
    /\ ~ok

\* C5: no partial success.  A failing ble_pack_telemetry or ble_pack_event
\* leaves every byte of the destination storage as it was, and a failing
\* ble_unpack_control leaves every member of the destination record as it was.
C5_NoPartialSuccess ==
    [][ /\ (op' \in {"ble_pack_telemetry", "ble_pack_event"} /\ ~ok')
            => buffer' = buffer
        /\ (op' = "ble_unpack_control" /\ ~ok') => rx' = rx ]_vars

C5_Witness ==
    /\ op = "ble_pack_telemetry"
    /\ ~ok
    /\ ~buf_null
    /\ Len(buffer) >= 14
    /\ pkt.protocol_version # 1

\* C6: encode layout.  A successful ble_pack_telemetry (ble_pack_event)
\* leaves in the first 14 (7) bytes of the destination the members in
\* declared order without padding, 16-bit members low byte first and signed
\* members in two's complement, and leaves every later byte unchanged.
C6_EncodeLayout ==
    [][ /\ (op' = "ble_pack_telemetry" /\ ok') =>
              /\ Len(buffer') = Len(buffer)
              /\ Prefix(buffer', 14) = TelemetryWire(pkt')
              /\ \A i \in 15..Len(buffer) : buffer'[i] = buffer[i]
        /\ (op' = "ble_pack_event" /\ ok') =>
              /\ Len(buffer') = Len(buffer)
              /\ Prefix(buffer', 7) = EventWire(pkt')
              /\ \A i \in 8..Len(buffer) : buffer'[i] = buffer[i] ]_vars

C6_Witness ==
    /\ op = "ble_pack_telemetry"
    /\ ok
    /\ Len(buffer) > 14
    /\ pkt.primary_value = -1
    /\ pkt.potentiometer_raw = 65535
    /\ buffer[5] = 255
    /\ buffer[15] = StaleByte(15)

\* C7: concrete vectors.  BLE_TEST_TELEM_1, BLE_TEST_EVENT_1 and
\* BLE_TEST_CTRL_1 decode to the records their comments describe, and
\* encoding those records yields exactly those bytes.
C7_TestVectors ==
    /\ (op = "decode_telemetry" /\ ~buf_null /\ buffer = BLE_TEST_TELEM_1)
        => (ok /\ rx = TelemetryRecord1)
    /\ (op = "decode_event" /\ ~buf_null /\ buffer = BLE_TEST_EVENT_1)
        => (ok /\ rx = EventRecord1)
    /\ (op = "ble_unpack_control" /\ ~buf_null /\ buffer = BLE_TEST_CTRL_1)
        => (ok /\ rx = ControlRecord1)
    /\ (op = "ble_pack_telemetry" /\ ~buf_null /\ Len(buffer) >= 14
            /\ pkt = TelemetryRecord1)
        => (ok /\ Prefix(buffer, 14) = BLE_TEST_TELEM_1)
    /\ (op = "ble_pack_event" /\ ~buf_null /\ Len(buffer) >= 7
            /\ pkt = EventRecord1)
        => (ok /\ Prefix(buffer, 7) = BLE_TEST_EVENT_1)
    /\ (op = "encode_control" /\ ~buf_null /\ Len(buffer) >= 8
            /\ pkt = ControlRecord1)
        => (ok /\ Prefix(buffer, 8) = BLE_TEST_CTRL_1)

C7_Witness ==
    /\ op = "ble_unpack_control"
    /\ ~Loopback
    /\ ~buf_null
    /\ buffer = BLE_TEST_CTRL_1
    /\ ok
    /\ rx = ControlRecord1

\* C8: duty clamp.  For every 16-bit duty argument d and every target and
\* flags argument, ble_make_control returns a packet whose duty_override is
\* d when d <= 1000 and 1000 otherwise, hence never above 1000.
C8_DutyClamp ==
    op = "ble_make_control" =>
        /\ pkt.duty_override <= 1000
        /\ pkt.duty_override =
              (IF args.duty_override <= 1000 THEN args.duty_override ELSE 1000)

C8_Witness ==
    /\ op = "ble_make_control"
    /\ args.duty_override = 65535
    /\ pkt.duty_override = 1000

\* C9: flag idempotence and clear.  For every 16-bit field value and every
\* named flag X: a field in which X was just set is left as it is by setting
\* X again and tests as set; a field in which X was just cleared tests as
\* not set.
C9_FlagUpdate ==
    /\ op = "flag_set" =>
          /\ flag_update(field, flag, TRUE) = field
          /\ flag_is_set(field, flag)
    /\ op = "flag_clear" => ~flag_is_set(field, flag)

C9_Witness ==
    /\ op = "flag_clear"
    /\ flag = [type |-> "telemetry", name |-> "sensor_fault"]
    /\ field = 65531

\* C10 (telemetry half; the header declares no control encoder): in the
\* bytes of every telemetry packet that ble_pack_telemetry accepts, the two
\* bytes of reserved are 00 00 and bits 3..15 of flags are zero.
C10_ReservedZeroOnWire ==
    (op = "ble_pack_telemetry" /\ ok) =>
        /\ buffer[13] = 0
        /\ buffer[14] = 0
        /\ buffer[3] + 256 * buffer[4] < 8

\* C11: reserved fields are ignored on read.  On every present buffer of at
\* least 8 bytes whose first byte is 1, ble_unpack_control succeeds whatever
\* bytes 2..8 hold, and the record carries them through as they are:
\* target_node_id, command_flags (reserved bits included), duty_override
\* (above 1000 included) and reserved.
C11_ReservedIgnoredOnRead ==
    (op = "ble_unpack_control" /\ ~buf_null /\ Len(buffer) >= 8 /\ buffer[1] = 1)
    => /\ ok
       /\ rx.protocol_version = 1
       /\ rx.target_node_id = buffer[2]
       /\ rx.command_flags = buffer[3] + 256 * buffer[4]
       /\ rx.duty_override = buffer[5] + 256 * buffer[6]
       /\ rx.reserved = buffer[7] + 256 * buffer[8]

C11_Witness ==
    /\ op = "ble_unpack_control"
    /\ ~Loopback
    /\ ~buf_null
    /\ Len(buffer) = 8
    /\ ok
    /\ rx.reserved # 0
    /\ rx.command_flags >= 4
    /\ rx.duty_override > 1000
    /\ rx.target_node_id > 2

\* C12: ble_validate_protocol_version returns true if and only if the buffer
\* is present, its size is at least 1 and its first byte equals the expected
\* version; it returns false on a null buffer, an empty buffer or another
\* first byte, and no byte after the first has any influence.
C12_ValidateVersion ==
    op = "ble_validate_protocol_version" =>
        (ok <=> (~buf_null /\ Len(buffer) >= 1 /\ buffer[1] = args.expected))

C12_Witness ==
    /\ op = "ble_validate_protocol_version"
    /\ ~buf_null
    /\ Len(buffer) = 1
    /\ buffer[1] = 2
    /\ args.expected = 2
    /\ ok

\* C13: builders pre-satisfy the mandatory invariants.  For every argument
\* combination the builders return protocol_version 1, the node or target
\* id passed, and reserved 0; ble_make_telemetry leaves every other member
\* 0; ble_make_event stores type, value and timestamp as passed.  A packet
\* returned by a builder is accepted by the matching encoder when the buffer
\* is present and at least of the fixed size.
C13_BuildersPreSatisfy ==
    /\ op = "make_telemetry" =>
          pkt = [protocol_version |-> 1, node_id |-> args.node_id, flags |-> 0,
                 primary_value |-> 0, secondary_value |-> 0,
                 potentiometer_raw |-> 0, duty_commanded |-> 0, reserved |-> 0]
    /\ op = "make_event" =>
          pkt = [protocol_version |-> 1, node_id |-> args.node_id,
                 event_type |-> args.type, event_value |-> args.value,
                 timestamp_ms_mod |-> args.timestamp_ms_mod]
    /\ op = "make_control" =>
          /\ pkt.protocol_version = 1
          /\ pkt.target_node_id = args.target
          /\ pkt.reserved = 0
    /\ (op = "ble_pack_telemetry" /\ ~buf_null /\ Len(buffer) >= 14) => ok
    /\ (op = "ble_pack_event" /\ ~buf_null /\ Len(buffer) >= 7) => ok
    /\ (op = "encode_control" /\ ~buf_null /\ Len(buffer) >= 8) => ok

C13_Witness ==
    /\ op = "ble_pack_telemetry"
    /\ args.fn = "ble_make_telemetry"
    /\ args.node_id = 255
    /\ pkt = ble_make_telemetry(255)
    /\ ~buf_null
    /\ Len(buffer) = 14
    /\ ok
    /\ buffer = <<1, 255, 0, 0, 0, 0, 0, 0, 0, 0, 0, 0, 0, 0>>

=============================================================================
